---- MODULE Spec2Model ----
(***************************************************************************)
(* Model of the configuration reader of tailcall                           *)
(* (src/config/reader.rs): ConfigReader::read_file, read_files,            *)
(* ext_script, read_all, resolve, ext_grpc, resolve_descriptors and        *)
(* read_proto.  Every await point of the async code is one action.         *)
(***************************************************************************)
EXTENDS Integers, Sequences, FiniteSets, TLC

VARIABLES
    absent,        \* world: references whose fetch fails (missing file, network error)
    corrupt,       \* world: references whose content does not parse
    content,       \* world: the document stored under each config reference
    imports,       \* world: the import list declared by each descriptor file
    files,         \* read_all / read_files: the caller's references, in order
    attempt,       \* number of read_all calls made on this ConfigReader
    pc,            \* position of the running call
    pending,       \* read_files: indices of the fetches still in flight
    arrivals,      \* read_files: indices of the completed fetches, in completion order
    outputs,       \* read_files: join_all's output vector
    loaded,        \* read_all: what read_files returned (line 83)
    idx,           \* read_all: position of the `for file in files.iter()` loop
    config_set,    \* read_all: the accumulator
    cur,           \* resolve: the ConfigSet of the file being resolved
    resolved,      \* what the last finished resolve returned
    roots,         \* ext_grpc: proto paths of the fields still to be scanned
    caller,        \* resolve_descriptors: who awaits it ("ext_grpc" or "direct")
    arg_map,       \* resolve_descriptors: its descriptors argument
    proto_path,    \* resolve_descriptors: its proto_path argument
    parent_proto,  \* resolve_descriptors: the parsed root
    queue,         \* resolve_descriptors: the BFS queue
    deps,          \* resolve_descriptors: rest of `file.dependency.iter()`
    descriptors,   \* resolve_descriptors / ext_grpc: the visited map
    result,        \* what the finished call returned
    prev,          \* what the previous direct resolve_descriptors call returned
    calls,         \* number of direct resolve_descriptors calls made
    io,            \* transport invocations so far, in order
    worker,        \* JsTokioWrapper: the worker thread ("starting", "running", "failed", "ended")
    wrapper,       \* JsTokioWrapper: TRUE while a clone of the wrapper (a sender) is alive
    channel,       \* JsTokioWrapper: the mpsc channel of (oneshot sender, request) messages
    tasks,         \* JsTokioWrapper: messages whose spawn_local task is running on_event
    oneshot,       \* execute: the oneshot channel of each call
    caller_pc,     \* execute: position of each call
    request_of,    \* execute: the request of each call
    returned,      \* execute: what each call returned
    cors,          \* handle_request_with_cors: the CorsParams
    req,           \* handle_request_with_cors: the request
    cors_pc,       \* handle_request_with_cors: position of the call
    headers,       \* handle_request_with_cors: the HeaderMap of line 176
    response,      \* handle_request_with_cors: what the call returned
    handled        \* number of handle_request invocations

world == <<absent, corrupt, content, imports>>
callv == <<files, attempt, caller, prev, calls>>
loadv == <<pending, arrivals, outputs, loaded>>
foldv == <<idx, config_set, cur, resolved>>
bfsv  == <<arg_map, proto_path, parent_proto, queue, deps, descriptors>>
jsv   == <<worker, wrapper, channel, tasks, oneshot, caller_pc, request_of, returned>>
corsv == <<cors, req, cors_pc, headers, response, handled>>
vars  == <<absent, corrupt, content, imports, files, attempt, pc, pending,
           arrivals, outputs, loaded, idx, config_set, cur, resolved, roots,
           caller, arg_map, proto_path, parent_proto, queue, deps, descriptors,
           result, prev, calls, io, worker, wrapper, channel, tasks, oneshot,
           caller_pc, request_of, returned, cors, req, cors_pc, headers,
           response, handled>>

----------------------------------------------------------------------------
(* Bounds of the model *)

\* longest list of references handed to read_all
MaxFiles == 2
\* longest import list of one descriptor file
MaxImports == 2
\* most references that are missing at once
MaxAbsent == 2

----------------------------------------------------------------------------
(* References and values *)

NULL_STR == "\\0\\0\\0\\0\\0\\0\\0"

WellKnown == {"google/protobuf/empty.proto"}
FsProtos == {"a.proto", "b.proto", "c.proto", "d.proto"}
ProtoOrder == <<"a.proto", "b.proto", "c.proto", "d.proto", "google/protobuf/empty.proto">>

ScriptRefs == {"s.js"}
ConfigRefs == {"a.graphql", "http://h/b.json", "c.yml", "d.txt"}
\* the references Url::parse accepts
UrlRefs == {"http://h/b.json"}

NoneV == [kind |-> "none"]
NotYet == [ok |-> FALSE, kind |-> "none"]
EmptyMap == [x \in {} |-> NoneV]

Ok(v) == [ok |-> TRUE, value |-> v]
\* `at` records where the error arose; the anyhow error itself carries only
\* its kind and its context chain
Err(kind, at) == [ok |-> FALSE, kind |-> kind, at |-> at, context |-> <<>>]

\* line 56: map_err(|e| e.context(x))
WithContext(r, x) == IF r.ok THEN r ELSE [r EXCEPT !.context = <<x>> \o @]

AbortWithPartial(e) == Ok(config_set)
AbortWithVisited(e) == Ok(descriptors)
\* the `?` of lines 83, 87, 91, 105, 108, 131, 149 and 155: the call returns the error
Abort(e) == e

InsertLost(m, k, v) == m
\* HashMap::insert
Insert(m, k, v) == [x \in (DOMAIN m) \cup {k} |-> IF x = k THEN v ELSE m[x]]

\* the members of S in the order of ord
InOrder(S, ord) == SelectSeq(ord, LAMBDA p : p \in S)
Range(s) == {s[n] : n \in DOMAIN s}

----------------------------------------------------------------------------
(* Source Loader: read_file *)

\* Source::detect: the format named by the reference's extension
Detect(path) ==
    CASE path = "a.graphql" -> Ok("GraphQL")
      [] path = "http://h/b.json" -> Ok("Json")
      [] path = "c.yml" -> Ok("Yml")
      [] OTHER -> Err("Detect", path)

\* the format a document stored under a config reference is written in
FormatOf(file) == IF Detect(file).ok THEN Detect(file).value ELSE "Text"

\* what the transports return for a reference that can be fetched
TextOf(file) ==
    IF file \in corrupt THEN [kind |-> "garbage"]
    ELSE IF file \in DOMAIN content
         THEN [kind |-> "config", format |-> FormatOf(file), doc |-> content[file]]
    ELSE IF file \in DOMAIN imports
         THEN [kind |-> "proto", dependency |-> imports[file]]
    ELSE IF file \in ScriptRefs
         THEN [kind |-> "script", code |-> "code of " \o file]
    ELSE [kind |-> "garbage"]

TransportFileOnly(file) == "file"
\* lines 35-47: http when Url::parse succeeds, else the file system
Transport(file) == IF file \in UrlRefs THEN "http" ELSE "file"

Invocation(file) == [path |-> file, via |-> Transport(file)]

\* lines 33-50
ReadFile(file) ==
    IF file \in absent
    THEN Err("Fetch", file)
    ELSE Ok([content |-> TextOf(file), path |-> file])

----------------------------------------------------------------------------
(* read_proto *)

\* GoogleFileResolver: the bundled well-known files; empty.proto imports nothing
CatalogText(path) == [kind |-> "proto", dependency |-> <<>>]

\* protox_parse::parse(path, content): the record is named after `path`
ProtoxParse(path, text) ==
    IF text.kind = "proto"
    THEN Ok([name |-> path, dependency |-> text.dependency])
    ELSE Err("ProtoParse", path)

\* lines 169-179
ReadProto(path) ==
    LET fetched == IF path \in WellKnown
                   THEN Ok(CatalogText(path))
                   ELSE LET r == ReadFile(path)
                        IN IF r.ok THEN Ok(r.value.content) ELSE r
    IN IF fetched.ok THEN ProtoxParse(path, fetched.value) ELSE fetched

ReadsOfProtoAlways(path) == <<Invocation(path)>>
\* the transport invocations one read_proto makes
ReadsOfProto(path) == IF path \in WellKnown THEN <<>> ELSE <<Invocation(path)>>

----------------------------------------------------------------------------
(* resolve_descriptors *)

\* the caller's continuation when resolve_descriptors returns Ok(map)
ReturnDescriptors(map) ==
    IF caller = "direct"
    THEN /\ pc' = "done"
         /\ result' = Ok(map)
         /\ UNCHANGED roots
    ELSE /\ pc' = "ext_grpc"
         /\ roots' = Tail(roots)
         /\ UNCHANGED result

\* lines 149-151: read the root, seed the queue
EnterResolve(start, path) ==
    LET r == ReadProto(path)
    IN /\ io' = io \o ReadsOfProto(path)
       /\ proto_path' = path
       /\ arg_map' = start
       /\ IF r.ok
          THEN /\ parent_proto' = r.value
               /\ queue' = <<r.value>>
               /\ deps' = <<>>
               /\ descriptors' = start
               /\ pc' = "bfs"
               /\ UNCHANGED result
          ELSE /\ pc' = "done"
               /\ result' = Abort(r)
               /\ UNCHANGED <<parent_proto, queue, deps, descriptors>>

\* line 153: while let Some(file) = queue.pop_front()
BfsPop ==
    /\ pc = "bfs"
    /\ deps = <<>>
    /\ queue # <<>>
    /\ deps' = Head(queue).dependency
    /\ queue' = Tail(queue)
    /\ UNCHANGED <<world, callv, pc, loadv, foldv, roots, arg_map, proto_path,
                   parent_proto, descriptors, result, io>>
    /\ UNCHANGED <<jsv, corsv>>

IsNewAlways(map, import) == TRUE
\* line 156: descriptors.get(import).is_none()
IsNew(map, import) == import \notin DOMAIN map

EnqueueNothing(q, proto) == q
\* line 157: queue.push_back(proto.clone())
Enqueue(q, proto) == Append(q, proto)

\* descriptors.remove(import).is_none() in place of get
VisitedEvicting(map, import, proto) ==
    IF IsNew(map, import)
    THEN Insert(map, import, proto)
    ELSE [x \in (DOMAIN map) \ {import} |-> map[x]]
\* lines 156-159: the visited map after one import
Visited(map, import, proto) ==
    IF IsNew(map, import) THEN Insert(map, import, proto) ELSE map

\* lines 154-160: one turn of `for import in file.dependency.iter()`
BfsImport ==
    /\ pc = "bfs"
    /\ deps # <<>>
    /\ LET import == Head(deps)
           r == ReadProto(import)
       IN /\ io' = io \o ReadsOfProto(import)
          /\ IF ~r.ok
             THEN /\ pc' = "done"
                  /\ result' = Abort(r)
                  /\ UNCHANGED <<queue, deps, descriptors>>
             ELSE /\ deps' = Tail(deps)
                  /\ queue' = IF IsNew(descriptors, import)
                              THEN Enqueue(queue, r.value)
                              ELSE queue
                  /\ descriptors' = Visited(descriptors, import, r.value)
                  /\ UNCHANGED <<pc, result>>
    /\ UNCHANGED <<world, callv, loadv, foldv, roots, arg_map, proto_path,
                   parent_proto>>
    /\ UNCHANGED <<jsv, corsv>>

\* line 163: descriptors.insert(proto_path, parent_proto)
InsertRoot(map, path, proto) == Insert(map, path, proto)

\* lines 163-165: the queue has drained
BfsReturn ==
    /\ pc = "bfs"
    /\ deps = <<>>
    /\ queue = <<>>
    /\ descriptors' = InsertRoot(descriptors, proto_path, parent_proto)
    /\ ReturnDescriptors(descriptors')
    /\ UNCHANGED <<world, callv, loadv, foldv, arg_map, proto_path,
                   parent_proto, queue, deps, io>>
    /\ UNCHANGED <<jsv, corsv>>

----------------------------------------------------------------------------
(* Direct calls of resolve_descriptors, as test_nested_imports makes them *)

\* the import lists a descriptor file may declare
ImportChoices(p) ==
    LET among == CASE p = "a.proto" -> {"a.proto", "b.proto", "c.proto"}
                   [] p = "b.proto" -> {"a.proto", "c.proto", "d.proto"}
                   [] p = "c.proto" -> {"b.proto", "d.proto", "google/protobuf/empty.proto"}
                   [] OTHER -> {"a.proto", "d.proto"}
    IN {InOrder(S, ProtoOrder) : S \in {T \in SUBSET among : Cardinality(T) <= MaxImports}}

Graphs == {g \in [FsProtos -> UNION {ImportChoices(p) : p \in FsProtos}] :
             \A p \in FsProtos : g[p] \in ImportChoices(p)}

DescRoots == {"a.proto", "b.proto", "google/protobuf/empty.proto"}

\* longest number of JsTokioWrapper::execute calls
MaxCalls == 3
Callers == 1..MaxCalls

\* a JsTokioWrapper just returned by new (line 72): the thread is spawned, no
\* call has been made
JsFresh ==
    /\ worker = "starting"
    /\ wrapper = TRUE
    /\ channel = <<>>
    /\ tasks = {}
    /\ oneshot = [c \in Callers |-> [tx |-> "none", rx |-> "none", sent |-> <<>>]]
    /\ caller_pc = [c \in Callers |-> "idle"]
    /\ request_of = [c \in Callers |-> NULL_STR]
    /\ returned = [c \in Callers |-> NotYet]

\* no request has reached handle_request_with_cors
CorsFresh ==
    /\ cors = NoneV
    /\ req = NoneV
    /\ cors_pc = "idle"
    /\ headers = EmptyMap
    /\ response = NotYet
    /\ handled = 0

\* the state of a ConfigReader on which nothing has been called
Fresh ==
    /\ attempt = 0
    /\ pc = "idle"
    /\ pending = {}
    /\ arrivals = <<>>
    /\ outputs = <<>>
    /\ loaded = NotYet
    /\ idx = 0
    /\ config_set = NoneV
    /\ cur = NoneV
    /\ resolved = NoneV
    /\ roots = <<>>
    /\ arg_map = EmptyMap
    /\ proto_path = NULL_STR
    /\ parent_proto = NoneV
    /\ queue = <<>>
    /\ deps = <<>>
    /\ descriptors = EmptyMap
    /\ result = NotYet
    /\ prev = NotYet
    /\ calls = 0
    /\ io = <<>>

InitDesc ==
    /\ imports \in Graphs
    /\ \E bad \in {{}, {"c.proto"}, {"d.proto"}} :
         \/ absent = bad /\ corrupt = {}
         \/ absent = {} /\ corrupt = bad
    /\ content = EmptyMap
    /\ files = <<>>
    /\ caller = "direct"
    /\ Fresh
    /\ JsFresh
    /\ CorsFresh

\* reader.resolve_descriptors(HashMap::new(), root)
FirstResolve ==
    /\ pc = "idle"
    /\ calls = 0
    /\ calls' = 1
    /\ \E root \in DescRoots : EnterResolve(EmptyMap, root)
    /\ UNCHANGED <<world, files, attempt, caller, prev, loadv, foldv, roots>>
    /\ UNCHANGED <<jsv, corsv>>

\* a second call for the same root, from an empty map or from the first result
SecondResolve ==
    /\ pc = "done"
    /\ calls = 1
    /\ result.ok
    /\ calls' = 2
    /\ prev' = result
    /\ \E start \in {EmptyMap, result.value} : EnterResolve(start, proto_path)
    /\ UNCHANGED <<world, files, attempt, caller, loadv, foldv, roots>>
    /\ UNCHANGED <<jsv, corsv>>

NextDesc == FirstResolve \/ SecondResolve \/ BfsPop \/ BfsImport \/ BfsReturn

SpecDesc == InitDesc /\ [][NextDesc]_vars

\* resolve_descriptors is awaited to completion: each step of its loop that
\* can be taken is taken
SpecDescLive ==
    /\ InitDesc
    /\ [][NextDesc]_vars
    /\ WF_vars(BfsPop)
    /\ WF_vars(BfsImport)
    /\ WF_vars(BfsReturn)

----------------------------------------------------------------------------
(* Config, ConfigSet and merge_right *)

Options == {"port", "hostname"}
TypeOrder == <<"Post", "Query", "User">>
FieldOrder == <<"f", "g">>

Some(v) == [kind |-> "some", v |-> v]
Unset == [port |-> NoneV, hostname |-> NoneV]

Grpc(p) == [kind |-> "some", proto_path |-> p]
ExprGrpc(p) == [kind |-> "Grpc", proto_path |-> p]
ExprHttp == [kind |-> "Http"]
Field(grpc, expr) == [grpc |-> grpc, expr |-> expr]

ScriptPath(src, timeout) == [kind |-> "Path", src |-> src, timeout |-> timeout]
ScriptFileNoTimeout(src, timeout) == [kind |-> "File", src |-> src, timeout |-> 0]
\* line 71: Script::File(ScriptOptions { src: script, timeout })
ScriptFile(src, timeout) == [kind |-> "File", src |-> src, timeout |-> timeout]

\* Config::default and ConfigSet::default
ConfigDefault == [script |-> NoneV, opts |-> Unset, vary |-> <<>>, types |-> EmptyMap]
ConfigSetDefault == [config |-> ConfigDefault, extensions |-> [grpc_file_descriptor |-> {}]]

\* ConfigSet::from(config), line 102
ConfigSetFrom(config) == [config |-> config, extensions |-> [grpc_file_descriptor |-> {}]]

\* Config::from_source(source, schema)
FromSource(source, schema) ==
    IF schema.kind = "config" /\ schema.format = source
    THEN Ok(schema.doc)
    ELSE Err("Parse", "schema")

RECURSIVE Dedup(_)
\* s without the later occurrences of a value
Dedup(s) ==
    IF s = <<>> THEN <<>>
    ELSE LET d == Dedup(SubSeq(s, 1, Len(s) - 1))
         IN IF s[Len(s)] \in Range(d) THEN d ELSE Append(d, s[Len(s)])

\* an Option of B over the same Option of A
OrElse(b, a) == IF b.kind = "none" THEN a ELSE b

Names(fileset) == {d.name : d \in fileset}

\* ConfigSet::merge_right: scalars and the script take B's value when B sets it,
\* named collections are united key-wise with B's entry replacing A's, lists are
\* concatenated without repetition, descriptor sets are united by identifier
MergeRight(A, B) ==
    [config |->
        [script |-> OrElse(B.config.script, A.config.script),
         opts   |-> [o \in Options |-> OrElse(B.config.opts[o], A.config.opts[o])],
         vary   |-> Dedup(A.config.vary \o B.config.vary),
         types  |-> [t \in (DOMAIN A.config.types) \cup (DOMAIN B.config.types) |->
                       IF t \in DOMAIN B.config.types
                       THEN B.config.types[t]
                       ELSE A.config.types[t]]],
     extensions |->
        [grpc_file_descriptor |->
            B.extensions.grpc_file_descriptor \cup
            {d \in A.extensions.grpc_file_descriptor :
                d.name \notin Names(B.extensions.grpc_file_descriptor)}]]

FoldStepSwapped(acc, new) == MergeRight(new, acc)
FoldStepReplace(acc, new) == new
\* line 94: config_set = config_set.merge_right(&new_config_set)
FoldStep(acc, new) == MergeRight(acc, new)

\* lines 120-126: the proto path of one field
PathOfField(fld) ==
    IF fld.grpc.kind = "some" THEN fld.grpc.proto_path
    ELSE IF fld.expr.kind = "Grpc" THEN fld.expr.proto_path
    ELSE NULL_STR

\* the (type, field) pairs of a config in the order the BTreeMaps iterate
FieldSlots(config) ==
    LET all == [n \in 1..(Len(TypeOrder) * Len(FieldOrder)) |->
                  <<TypeOrder[((n - 1) \div Len(FieldOrder)) + 1],
                    FieldOrder[((n - 1) % Len(FieldOrder)) + 1]>>]
    IN SelectSeq(all, LAMBDA s : /\ s[1] \in DOMAIN config.types
                                 /\ s[2] \in DOMAIN config.types[s[1]])

\* lines 118-132: the proto paths ext_grpc hands to resolve_descriptors, in order
ScanPaths(config) ==
    LET slots == FieldSlots(config)
        paths == [n \in DOMAIN slots |-> PathOfField(config.types[slots[n][1]][slots[n][2]])]
    IN SelectSeq(paths, LAMBDA p : p # NULL_STR)

StaleDescriptors == descriptors
\* line 116: HashMap::new()
NewDescriptors == EmptyMap

\* lines 135-139: the values of the map become the file descriptor set
FileSet(map) == {map[k] : k \in DOMAIN map}

----------------------------------------------------------------------------
(* read_files *)

Pending == [ok |-> FALSE, kind |-> "pending"]

JoinSlotArrival(n, k) == k + 1
\* join_all: the output of the n-th future goes to position n, whatever the
\* number k of futures that completed before it
JoinSlot(n, k) == n

CollectPartial(outs) ==
    LET good == SelectSeq(outs, LAMBDA r : r.ok)
    IN Ok([n \in DOMAIN good |-> good[n].value])
\* lines 60-61: collect::<anyhow::Result<Vec<_>>>() keeps the first Err in order
CollectResults(outs) ==
    IF \E n \in DOMAIN outs : ~outs[n].ok
    THEN outs[CHOOSE n \in DOMAIN outs :
                /\ ~outs[n].ok
                /\ \A m \in DOMAIN outs : m < n => outs[m].ok]
    ELSE Ok([n \in DOMAIN outs |-> outs[n].value])

\* lines 83 and 54-58: read_all calls read_files, which issues every fetch
StartReadAll ==
    /\ \/ pc = "idle" /\ attempt = 0
       \/ pc = "fixed" /\ attempt = 1
    /\ attempt' = attempt + 1
    /\ pc' = "read_files"
    /\ pending' = DOMAIN files
    /\ arrivals' = <<>>
    /\ outputs' = [n \in DOMAIN files |-> Pending]
    /\ loaded' = NotYet
    /\ result' = NotYet
    /\ io' = io \o [n \in DOMAIN files |-> Invocation(files[n])]
    /\ UNCHANGED <<world, files, caller, prev, calls, foldv, roots, bfsv>>
    /\ UNCHANGED <<jsv, corsv>>

\* one fetch completes, in any order
CompleteFetch ==
    /\ pc = "read_files"
    /\ \E n \in pending :
         /\ pending' = pending \ {n}
         /\ arrivals' = Append(arrivals, n)
         /\ outputs' = [outputs EXCEPT ![JoinSlot(n, Len(arrivals))] =
                           WithContext(ReadFile(files[n]), files[n])]
    /\ UNCHANGED <<world, callv, pc, loaded, foldv, roots, bfsv, result, io>>
    /\ UNCHANGED <<jsv, corsv>>

\* lines 58-62 and 83-84: every fetch has completed
Collect ==
    /\ pc = "read_files"
    /\ pending = {}
    /\ LET r == CollectResults(outputs)
       IN IF ~r.ok
          THEN /\ pc' = "done"
               /\ result' = Abort(r)
               /\ UNCHANGED <<loaded, idx, config_set>>
          ELSE /\ loaded' = r
               /\ config_set' = ConfigSetDefault
               /\ IF r.value = <<>>
                  THEN /\ pc' = "done"
                       /\ result' = Ok(ConfigSetDefault)
                       /\ UNCHANGED idx
                  ELSE /\ pc' = "fold"
                       /\ idx' = 1
                       /\ UNCHANGED result
    /\ UNCHANGED <<world, callv, pending, arrivals, outputs, cur, resolved,
                   roots, bfsv, io>>
    /\ UNCHANGED <<jsv, corsv>>

----------------------------------------------------------------------------
(* read_all, resolve, ext_script, ext_grpc *)

\* lines 86-91 and 102: detect the format, parse, wrap into a ConfigSet
ParseFile ==
    /\ pc = "fold"
    /\ LET file == loaded.value[idx]
           source == Detect(file.path)
           parsed == IF source.ok THEN FromSource(source.value, file.content) ELSE source
       IN IF ~parsed.ok
          THEN /\ pc' = "done"
               /\ result' = Abort(parsed)
               /\ UNCHANGED cur
          ELSE /\ pc' = "ext_script"
               /\ cur' = ConfigSetFrom(parsed.value)
               /\ UNCHANGED result
    /\ UNCHANGED <<world, callv, loadv, idx, config_set, resolved, roots, bfsv, io>>
    /\ UNCHANGED <<jsv, corsv>>

\* lines 66-74, then lines 115-117
ExtScript ==
    /\ pc = "ext_script"
    /\ LET script == cur.config.script
           r == ReadFile(script.src)
       IN IF script.kind = "Path"
          THEN /\ io' = Append(io, Invocation(script.src))
               /\ IF ~r.ok
                  THEN /\ pc' = "done"
                       /\ result' = Abort(r)
                       /\ UNCHANGED <<cur, roots, descriptors>>
                  ELSE /\ cur' = [cur EXCEPT !.config.script =
                                     ScriptFile(r.value.content, script.timeout)]
                       /\ pc' = "ext_grpc"
                       /\ roots' = ScanPaths(cur.config)
                       /\ descriptors' = NewDescriptors
                       /\ UNCHANGED result
          ELSE /\ pc' = "ext_grpc"
               /\ roots' = ScanPaths(cur.config)
               /\ descriptors' = NewDescriptors
               /\ UNCHANGED <<cur, result, io>>
    /\ UNCHANGED <<world, callv, loadv, idx, config_set, resolved, arg_map,
                   proto_path, parent_proto, queue, deps>>
    /\ UNCHANGED <<jsv, corsv>>

\* lines 128-131: the next field with a proto path
ExtGrpcNext ==
    /\ pc = "ext_grpc"
    /\ roots # <<>>
    /\ EnterResolve(descriptors, Head(roots))
    /\ UNCHANGED <<world, callv, loadv, foldv, roots>>
    /\ UNCHANGED <<jsv, corsv>>

\* lines 135-140, 110 and 94-96: resolve returns, the fold merges
ExtGrpcDone ==
    /\ pc = "ext_grpc"
    /\ roots = <<>>
    /\ LET new_config_set ==
               [cur EXCEPT !.extensions = [grpc_file_descriptor |-> FileSet(descriptors)]]
           merged == FoldStep(config_set, new_config_set)
       IN /\ resolved' = new_config_set
          /\ config_set' = merged
          /\ idx' = idx + 1
          /\ IF idx = Len(loaded.value)
             THEN pc' = "done" /\ result' = Ok(merged)
             ELSE pc' = "fold" /\ UNCHANGED result
    /\ UNCHANGED <<world, callv, loadv, cur, roots, bfsv, io>>
    /\ UNCHANGED <<jsv, corsv>>

\* the environment: the file whose fetch failed now exists
FixFile ==
    /\ pc = "done"
    /\ attempt = 1
    /\ ~result.ok
    /\ result.kind = "Fetch"
    /\ absent' = absent \ {result.at}
    /\ pc' = "fixed"
    /\ UNCHANGED <<corrupt, content, imports, callv, loadv, foldv, roots, bfsv,
                   result, io>>
    /\ UNCHANGED <<jsv, corsv>>

----------------------------------------------------------------------------
(* The documents and worlds read_all is run in *)

DocA1 == [script |-> ScriptPath("s.js", 5),
          opts   |-> [port |-> Some(8000), hostname |-> NoneV],
          vary   |-> <<"origin">>,
          types  |-> [Query |-> [f |-> Field(Grpc("a.proto"), NoneV)]]]
DocA2 == [script |-> NoneV,
          opts   |-> [port |-> Some(8000), hostname |-> Some("alpha")],
          vary   |-> <<>>,
          types  |-> [Query |-> [f |-> Field(Grpc("b.proto"), ExprGrpc("c.proto")),
                                 g |-> Field(NoneV, ExprHttp)]]]
DocA3 == [script |-> ScriptFile("inline code", 7),
          opts   |-> Unset,
          vary   |-> <<>>,
          types  |-> [Query |-> [f |-> Field(NoneV, ExprGrpc("a.proto")),
                                 g |-> Field(Grpc("google/protobuf/empty.proto"), NoneV)]]]
DocB1 == [script |-> NoneV,
          opts   |-> [port |-> Some(9000), hostname |-> NoneV],
          vary   |-> <<"accept", "origin">>,
          types  |-> [User |-> [f |-> Field(NoneV, ExprGrpc("b.proto"))]]]
DocB2 == [script |-> ScriptPath("s.js", 9),
          opts   |-> [port |-> Some(9000), hostname |-> Some("beta")],
          vary   |-> <<>>,
          types  |-> [Query |-> [g |-> Field(Grpc("d.proto"), NoneV)],
                      User  |-> [g |-> Field(NoneV, NoneV)]]]
DocC  == [script |-> NoneV,
          opts   |-> Unset,
          vary   |-> <<>>,
          types  |-> [Post |-> [f |-> Field(Grpc("d.proto"), NoneV),
                                g |-> Field(NoneV, ExprGrpc("d.proto"))]]]

Contents ==
    {[r \in ConfigRefs |->
        CASE r = "a.graphql" -> a
          [] r = "http://h/b.json" -> b
          [] OTHER -> DocC] : a \in {DocA1, DocA2, DocA3}, b \in {DocB1, DocB2}}

Diamond == [p \in FsProtos |->
              CASE p = "a.proto" -> <<"b.proto", "c.proto">>
                [] p = "b.proto" -> <<"d.proto">>
                [] p = "c.proto" -> <<"d.proto">>
                [] OTHER -> <<>>]
Cyclic  == [p \in FsProtos |->
              CASE p = "a.proto" -> <<"b.proto">>
                [] p = "b.proto" -> <<"a.proto", "c.proto">>
                [] p = "c.proto" -> <<"google/protobuf/empty.proto">>
                [] OTHER -> <<"d.proto">>]
ReadGraphs == {Diamond, Cyclic}

FileLists == UNION {[1..n -> ConfigRefs] : n \in 0..MaxFiles}

AbsentChoices ==
    {S \in SUBSET {"a.graphql", "http://h/b.json", "s.js", "c.proto"} :
        Cardinality(S) <= MaxAbsent}
CorruptChoices == {{}, {"a.graphql"}, {"d.proto"}}

Init ==
    /\ imports \in ReadGraphs
    /\ absent \in AbsentChoices
    /\ corrupt \in CorruptChoices
    /\ content \in Contents
    /\ files \in FileLists
    /\ caller = "ext_grpc"
    /\ Fresh
    /\ JsFresh
    /\ CorsFresh

Next ==
    \/ StartReadAll
    \/ CompleteFetch
    \/ Collect
    \/ ParseFile
    \/ ExtScript
    \/ ExtGrpcNext
    \/ ExtGrpcDone
    \/ BfsPop
    \/ BfsImport
    \/ BfsReturn
    \/ FixFile

Spec == Init /\ [][Next]_vars

----------------------------------------------------------------------------
(* What the import graph says, independently of the traversal *)

DeclaredImports(p) == IF p \in WellKnown THEN {} ELSE Range(imports[p])

RECURSIVE Closure(_)
\* the least set of identifiers that contains S and every import of a member
Closure(S) ==
    LET more == S \cup UNION {DeclaredImports(p) : p \in S}
    IN IF more = S THEN S ELSE Closure(more)

\* a direct resolve_descriptors call from an empty map has returned a map
FirstReturned == pc = "done" /\ calls = 1 /\ result.ok

\* C8: a successful resolve_descriptors(empty, root) returns exactly one record
\* for the root and for every identifier transitively imported from it, and
\* no other record
C8_ExactClosure ==
    FirstReturned =>
        /\ DOMAIN result.value = Closure({proto_path})
        /\ \A p \in Closure({proto_path}) :
             Cardinality({k \in DOMAIN result.value : result.value[k].name = p}) = 1

\* a diamond: the root imports b and c, and both import d
C8_Witness ==
    /\ FirstReturned
    /\ proto_path = "a.proto"
    /\ imports["a.proto"] = <<"b.proto", "c.proto">>
    /\ imports["b.proto"] = <<"d.proto">>
    /\ imports["c.proto"] = <<"d.proto">>
    /\ imports["d.proto"] = <<>>
    /\ DOMAIN result.value = FsProtos

\* a root that imports nothing resolves to itself alone
C8_WitnessSingleton ==
    /\ FirstReturned
    /\ proto_path = "a.proto"
    /\ imports["a.proto"] = <<>>
    /\ DOMAIN result.value = {"a.proto"}

\* C9: the returned map holds the parsed root under the root's declared name,
\* and every record of the map is stored under its own declared name
C9_RootUnderOwnName ==
    (pc = "done" /\ calls >= 1 /\ result.ok) =>
        /\ parent_proto.name \in DOMAIN result.value
        /\ result.value[parent_proto.name] = parent_proto
        /\ \A k \in DOMAIN result.value : result.value[k].name = k

\* the root has imports and nothing imports the root, so only line 163 stores it
C9_Witness ==
    /\ FirstReturned
    /\ parent_proto.dependency # <<>>
    /\ \A p \in Closure({proto_path}) : proto_path \notin DeclaredImports(p)
    /\ result.value[proto_path].name = proto_path

\* C10: on an unchanged import graph a second resolve_descriptors call for the
\* same root, from an empty map or from the first call's result, returns the
\* map the first call returned
C10_Idempotent ==
    (pc = "done" /\ calls = 2) =>
        /\ result.ok
        /\ prev.ok
        /\ DOMAIN result.value = DOMAIN prev.value
        /\ \A k \in DOMAIN result.value :
             result.value[k].dependency = prev.value[k].dependency
        /\ result.value = prev.value

\* the second call was started from the first call's result, which had imports
C10_Witness ==
    /\ pc = "done"
    /\ calls = 2
    /\ result.ok
    /\ Cardinality(DOMAIN prev.value) >= 3
    /\ arg_map = prev.value
    /\ result.value = prev.value

----------------------------------------------------------------------------
(* What a read_all call is expected to do, stated on the world *)

Max(S) == CHOOSE n \in S : \A m \in S : m <= n
Min(S) == CHOOSE n \in S : \A m \in S : n <= m

Readable(p) == p \in WellKnown \/ (p \notin absent /\ p \notin corrupt)

\* every step read_all takes for the file under reference f succeeds
StepsOk(f) ==
    /\ f \notin absent
    /\ Detect(f).ok
    /\ f \notin corrupt
    /\ content[f].script.kind = "Path" => content[f].script.src \notin absent
    /\ \A p \in Closure(Range(ScanPaths(content[f]))) : Readable(p)

AllStepsOk(fs) == \A n \in DOMAIN fs : StepsOk(fs[n])

RecordOf(p) == [name |-> p, dependency |-> IF p \in WellKnown THEN <<>> ELSE imports[p]]

\* the ConfigSet of one file: its document with the script inlined and the
\* closure of its proto paths
ResolvedOf(f) ==
    LET doc == content[f]
    IN [config |->
          [doc EXCEPT !.script =
              IF doc.script.kind = "Path"
              THEN ScriptFile(TextOf(doc.script.src), doc.script.timeout)
              ELSE doc.script],
        extensions |->
          [grpc_file_descriptor |->
              {RecordOf(p) : p \in Closure(Range(ScanPaths(doc)))}]]

RECURSIVE Folded(_)
\* merge_right folded over the files from the left, from the default ConfigSet
Folded(fs) ==
    IF fs = <<>> THEN ConfigSetDefault
    ELSE MergeRight(Folded(SubSeq(fs, 1, Len(fs) - 1)), ResolvedOf(fs[Len(fs)]))

\* C1: read_all returns a ConfigSet exactly when load, format detection, parse,
\* script inlining and descriptor resolution succeed for every file; otherwise
\* it returns an error that carries no ConfigSet
C1_AllOrNothing ==
    pc = "done" =>
        /\ result.ok <=> AllStepsOk(files)
        /\ ~result.ok => "value" \notin DOMAIN result

\* the second file fails after the first was merged into the accumulator
C1_Witness ==
    /\ pc = "done"
    /\ attempt = 1
    /\ ~result.ok
    /\ loaded.ok
    /\ idx = 2
    /\ config_set # ConfigSetDefault

\* C2: a read_all that follows a failed one, once the missing file exists,
\* returns what a first call returns in a world where nothing is missing
C2_NoResidue ==
    /\ (pc = "done" /\ attempt = 2 /\ AllStepsOk(files)) =>
           result = Ok(Folded(files))
    /\ (pc = "done" /\ attempt = 1 /\ result.ok) =>
           result = Ok(Folded(files))

\* the retry succeeded after a descriptor import had been missing
C2_Witness ==
    /\ pc = "done"
    /\ attempt = 2
    /\ result.ok
    /\ absent = {}
    /\ Cardinality({n \in DOMAIN io : io[n].path = "c.proto"}) >= 2
    /\ result.value.extensions.grpc_file_descriptor # {}

\* C3: whatever the completion order, when read_files returns Ok it returns one
\* FileRead per reference, in input order, each with its reference and the
\* content fetched for it; and it returns Ok when every fetch succeeds
C3_InputOrder ==
    /\ loaded.ok =>
          /\ Len(loaded.value) = Len(files)
          /\ \A n \in DOMAIN files :
                loaded.value[n] = [content |-> TextOf(files[n]), path |-> files[n]]
    /\ (pc \notin {"idle", "read_files", "fixed"}
          /\ \A n \in DOMAIN files : files[n] \notin absent) => loaded.ok

\* the second fetch completed before the first
C3_Witness ==
    /\ loaded.ok
    /\ arrivals = <<2, 1>>
    /\ files[1] # files[2]
    /\ loaded.value[1].path = files[1]

FailedFetches == {n \in DOMAIN files : files[n] \in absent}

\* C4: when a fetch of read_files fails the call returns an error without any
\* content, and the error's context is the reference of the failed fetch (the
\* first one in input order when several fail)
C4_FirstFailure ==
    (pc = "done" /\ FailedFetches # {}) =>
        /\ ~result.ok
        /\ ~loaded.ok
        /\ "value" \notin DOMAIN result
        /\ result.kind = "Fetch"
        /\ result.at = files[Min(FailedFetches)]
        /\ result.context = <<files[Min(FailedFetches)]>>

\* the other reference was fetched successfully, and before the failure
C4_Witness ==
    /\ pc = "done"
    /\ FailedFetches = {1}
    /\ arrivals = <<2, 1>>
    /\ outputs[2].ok
    /\ result.context = <<files[1]>>

Setters(o) == {n \in DOMAIN files : content[files[n]].opts[o].kind = "some"}

\* C5: in the ConfigSet read_all returns, every scalar option has the value of
\* the last file of the input that sets it, and is unset when no file sets it
C5_LastSetterWins ==
    (pc = "done" /\ result.ok) =>
        \A o \in Options :
            result.value.config.opts[o] =
                IF Setters(o) = {} THEN NoneV
                ELSE content[files[Max(Setters(o))]].opts[o]

\* A sets port and hostname, B sets another port only
C5_Witness ==
    /\ pc = "done"
    /\ result.ok
    /\ files = <<"a.graphql", "http://h/b.json">>
    /\ content["a.graphql"].opts = [port |-> Some(8000), hostname |-> Some("alpha")]
    /\ content["http://h/b.json"].opts = [port |-> Some(9000), hostname |-> NoneV]
    /\ result.value.config.opts = [port |-> Some(9000), hostname |-> Some("alpha")]

\* the keys a document sets
KeysOf(doc) ==
    {<<"type", t>> : t \in DOMAIN doc.types}
    \cup {<<"option", o>> : o \in {x \in Options : doc.opts[x].kind = "some"}}
    \cup (IF doc.script.kind = "none" THEN {} ELSE {<<"option", "script">>})
    \cup (IF doc.vary = <<>> THEN {} ELSE {<<"list", "vary">>})

KeyDisjoint(fs) ==
    \A n, m \in DOMAIN fs :
        n # m => KeysOf(content[fs[n]]) \cap KeysOf(content[fs[m]]) = {}

\* the union of the ConfigSets of a set of files that share no key
UnionOf(S) ==
    LET R == [f \in S |-> ResolvedOf(f)]
        pick(has(_), get(_), none) ==
            IF \E f \in S : has(f) THEN get(CHOOSE f \in S : has(f)) ELSE none
    IN [config |->
          [script |-> pick(LAMBDA f : R[f].config.script.kind # "none",
                           LAMBDA f : R[f].config.script, NoneV),
           opts   |-> [o \in Options |->
                         pick(LAMBDA f : R[f].config.opts[o].kind = "some",
                              LAMBDA f : R[f].config.opts[o], NoneV)],
           vary   |-> pick(LAMBDA f : R[f].config.vary # <<>>,
                           LAMBDA f : R[f].config.vary, <<>>),
           types  |-> [t \in UNION {DOMAIN R[f].config.types : f \in S} |->
                         R[CHOOSE f \in S : t \in DOMAIN R[f].config.types].config.types[t]]],
        extensions |->
          [grpc_file_descriptor |->
              UNION {R[f].extensions.grpc_file_descriptor : f \in S}]]

\* C6: for files that share no key read_all returns the union of the files'
\* types and fields, and a ConfigSet that depends only on the set of files
C6_DisjointUnion ==
    (pc = "done" /\ result.ok /\ KeyDisjoint(files)) =>
        /\ DOMAIN result.value.config.types =
              UNION {DOMAIN content[f].types : f \in Range(files)}
        /\ \A f \in Range(files) : \A t \in DOMAIN content[f].types :
              result.value.config.types[t] = content[f].types[t]
        /\ result.value = UnionOf(Range(files))

\* two files with different types, the later one first in another run
C6_Witness ==
    /\ pc = "done"
    /\ result.ok
    /\ files = <<"http://h/b.json", "a.graphql">>
    /\ KeyDisjoint(files)
    /\ DOMAIN result.value.config.types = {"Query", "User"}

ProtoPathsOf(fld) ==
    (IF fld.grpc.kind = "some" THEN {fld.grpc.proto_path} ELSE {})
    \cup (IF fld.expr.kind = "Grpc" THEN {fld.expr.proto_path} ELSE {})

\* a ConfigSet without unresolved external reference
NoUnresolved(cs) ==
    LET set == cs.extensions.grpc_file_descriptor
    IN /\ cs.config.script.kind # "Path"
       /\ \A t \in DOMAIN cs.config.types : \A f \in DOMAIN cs.config.types[t] :
             ProtoPathsOf(cs.config.types[t][f]) \subseteq Names(set)
       /\ \A d \in set : Range(d.dependency) \subseteq Names(set)

\* C7: the ConfigSet a successful resolve returns has no script path, holds a
\* record for every proto path of every field (on the field or in its
\* expression body, also when the field has both), and is closed under imports
C7_NoUnresolved == resolved # NoneV => NoUnresolved(resolved)

----------------------------------------------------------------------------
(* read_proto and the failures of resolve_descriptors *)

\* C11: no transport is ever invoked for a path of the well-known catalog, be
\* it a root or an import; a root outside the catalog goes to read_file first
C11_CatalogFirst ==
    /\ \A n \in DOMAIN io : io[n].path \notin WellKnown
    /\ (calls >= 1 /\ proto_path \notin WellKnown) =>
          (io # <<>> /\ io[1] = [path |-> proto_path, via |-> "file"])

\* a traversal met the well-known file as an import and returned
C11_Witness ==
    /\ FirstReturned
    /\ proto_path = "b.proto"
    /\ "google/protobuf/empty.proto" \in DOMAIN result.value
    /\ io # <<>>

\* the well-known file as a root: nothing was fetched
C11_WitnessRoot ==
    /\ FirstReturned
    /\ proto_path = "google/protobuf/empty.proto"
    /\ io = <<>>

\* C12: resolve_descriptors returns an error, and no map, exactly when the root
\* or a transitively imported file cannot be fetched or parsed, and the file
\* that failed is the last one it fetched
C12_FailFast ==
    (pc = "done" /\ calls = 1) =>
        /\ result.ok <=> \A p \in Closure({proto_path}) : Readable(p)
        /\ ~result.ok =>
              /\ "value" \notin DOMAIN result
              /\ ~Readable(result.at)
              /\ io[Len(io)].path = result.at
              /\ \A n \in 1..(Len(io) - 1) : Readable(io[n].path)

\* an import failed after other records had been gathered
C12_Witness ==
    /\ pc = "done"
    /\ calls = 1
    /\ ~result.ok
    /\ Cardinality(DOMAIN descriptors) >= 2
    /\ \E p \in Closure({proto_path}) : Readable(p) /\ p \notin Range([n \in DOMAIN io |-> io[n].path])

----------------------------------------------------------------------------
(* Errors after the initial load, ext_script, read_file, the fold *)

\* C13: an error that arises after the initial load, on the script file or on
\* a descriptor file, has the identifier of the failed file in its context
C13_ContextAttached ==
    (pc = "done" /\ ~result.ok /\ loaded.ok /\ result.kind \in {"Fetch", "ProtoParse"}) =>
        result.at \in Range(result.context)

\* C14: ext_script on a script path fetches the path once and leaves the inline
\* script with the fetched content and the same timeout; on an inline or absent
\* script it fetches nothing and changes nothing, so it never leaves a path
C14_ScriptInlined ==
    [][(pc = "ext_script" /\ pc' = "ext_grpc") =>
          /\ cur'.config.script.kind # "Path"
          /\ IF cur.config.script.kind = "Path"
             THEN /\ cur' = [cur EXCEPT !.config.script =
                               [kind    |-> "File",
                                src     |-> TextOf(cur.config.script.src),
                                timeout |-> cur.config.script.timeout]]
                  /\ io' = Append(io, [path |-> cur.config.script.src, via |-> "file"])
             ELSE cur' = cur /\ io' = io]_vars

\* the script path of the document was replaced by the content of s.js
C14_Witness ==
    /\ pc = "ext_grpc"
    /\ content[loaded.value[idx].path].script = ScriptPath("s.js", 5)
    /\ cur.config.script.kind = "File"
    /\ cur.config.script.src = TextOf("s.js")
    /\ cur.config.script.timeout = 5

\* C15: every read_file invokes one transport, the network one exactly for the
\* references that parse as a URL; a failed fetch is followed by no other
\* invocation for its reference
C15_OneTransport ==
    /\ \A n \in DOMAIN io :
          io[n].via = IF io[n].path \in UrlRefs THEN "http" ELSE "file"
    /\ (attempt = 1 /\ (pc = "read_files" \/ (pc = "done" /\ ~loaded.ok))) =>
          /\ Len(io) = Len(files)
          /\ \A n \in DOMAIN files : io[n].path = files[n]

\* the fetch of the URL failed and the one of the path succeeded
C15_Witness ==
    /\ pc = "done"
    /\ attempt = 1
    /\ files = <<"http://h/b.json", "a.graphql">>
    /\ ~result.ok
    /\ "http://h/b.json" \in absent
    /\ "a.graphql" \notin absent
    /\ io = <<[path |-> "http://h/b.json", via |-> "http"],
              [path |-> "a.graphql", via |-> "file"]>>

\* C16: while read_all folds, the accumulator is the left fold of merge_right
\* over the files before the current one, from the default ConfigSet, and the
\* ConfigSet returned is the fold over all of them, for every completion order
C16_SequentialFold ==
    /\ (loaded.ok /\ pc \in {"fold", "ext_script", "ext_grpc", "bfs"}) =>
          config_set = Folded(SubSeq(files, 1, idx - 1))
    /\ (pc = "done" /\ result.ok) => result.value = Folded(files)

\* two different files whose loads completed in reverse order were folded
C16_Witness ==
    /\ pc = "done"
    /\ result.ok
    /\ arrivals = <<2, 1>>
    /\ files = <<"http://h/b.json", "a.graphql">>
    /\ result.value.config.opts["port"] = Some(8000)
    /\ result.value # MergeRight(ResolvedOf("a.graphql"), ResolvedOf("http://h/b.json"))


\* the invocations of the source loader made so far for identifier p
FetchesOf(p) == Cardinality({n \in DOMAIN io : io[n].path = p})

\* C17: during one resolve_descriptors traversal every imported identifier is
\* fetched and parsed at most once, also when several files import it (an
\* import that is already in the visited map causes no fetch)
C17_FetchedOnce ==
    calls = 1 => \A p \in FsProtos \ {proto_path} : FetchesOf(p) <= 1


\* the proto paths the fields of a config reference, directly or in an
\* expression body
ReferencedPaths(config) ==
    UNION {UNION {ProtoPathsOf(config.types[t][f]) : f \in DOMAIN config.types[t]} :
             t \in DOMAIN config.types}

\* what resolve_descriptors returns for root p when started from an empty map
ClosureMap(p) == {RecordOf(q) : q \in Closure({p})}

\* C18: the descriptor set ext_grpc produces is the union, over the distinct
\* proto paths its fields reference, of the closure each path resolves to from
\* its own empty map
C18_UnionOfClosures ==
    resolved # NoneV =>
        resolved.extensions.grpc_file_descriptor =
            UNION {ClosureMap(p) : p \in ReferencedPaths(resolved.config)}


\* C19: ext_grpc resolves each distinct proto path once: while one file is
\* resolved, a scanned path that no file of the closure imports is fetched at
\* most once, also when several fields carry it
C19_OncePerPath ==
    (attempt = 1 /\ Len(files) = 1 /\ loaded.ok) =>
        LET scanned == Range(ScanPaths(content[files[1]]))
        IN \A p \in scanned :
              (\A q \in Closure(scanned) : p \notin DeclaredImports(q)) =>
                  FetchesOf(p) <= 1


\* C20: resolve_descriptors terminates on every finite import graph, cyclic
\* ones included: an identifier is enqueued only while it is not in the visited
\* map and is in the map from then on, so imports enqueue it at most once, and
\* every traversal that has started eventually returns
C20_Terminates ==
    /\ [][(pc = "bfs" /\ Len(queue') > Len(queue)) =>
              /\ queue' = Append(queue, RecordOf(Head(deps)))
              /\ Head(deps) \notin DOMAIN descriptors
              /\ Head(deps) \in DOMAIN descriptors']_vars
    /\ [][(pc = "bfs" /\ pc' = "bfs") =>
              DOMAIN descriptors \subseteq DOMAIN descriptors']_vars
    /\ (pc = "bfs") ~> (pc = "done")

\* a returned traversal of a graph in which the root imports itself, the root
\* and b.proto import each other, and c.proto imports its importer
C20_Witness ==
    /\ FirstReturned
    /\ queue = <<>>
    /\ proto_path = "a.proto"
    /\ imports["a.proto"] = <<"a.proto", "b.proto">>
    /\ imports["b.proto"] = <<"a.proto", "c.proto">>
    /\ imports["c.proto"] = <<"b.proto">>
    /\ DOMAIN result.value = {"a.proto", "b.proto", "c.proto"}


----------------------------------------------------------------------------
(* The order of loading and resolving in read_all *)

\* a document has been parsed, or something beyond the input documents has
\* been fetched
Started ==
    \/ cur # NoneV
    \/ resolved # NoneV
    \/ Len(io) > Len(files)
    \/ (~result.ok /\ result.kind \in {"Detect", "Parse", "ProtoParse"})

\* C21: in read_all nothing is parsed and no script or descriptor is fetched
\* before the load of every input document has completed successfully; when a
\* load fails, nothing is parsed and nothing further is fetched
C21_LoadBeforeResolve ==
    attempt = 1 =>
        /\ Started => /\ loaded.ok
                      /\ pending = {}
                      /\ \A n \in DOMAIN files : files[n] \notin absent
        /\ (pc = "done" /\ ~loaded.ok) =>
              /\ ~Started
              /\ io = [n \in DOMAIN files |-> Invocation(files[n])]

\* the first document loaded, and would have parsed and resolved, before the
\* load of the second one failed
C21_Witness ==
    /\ attempt = 1
    /\ pc = "done"
    /\ ~loaded.ok
    /\ Len(files) = 2
    /\ arrivals = <<1, 2>>
    /\ StepsOk(files[1])
    /\ files[2] \in absent
    /\ cur = NoneV
    /\ Len(io) = 2


----------------------------------------------------------------------------
(* JsTokioWrapper: execute calls, the mpsc channel and the worker thread *)

readerv == <<world, callv, pc, loadv, foldv, roots, bfsv, result, io>>

Requests == {"/a", "/b"}

\* line 61: what worker.on_event may return for a request
OnEventResults(request) == {Ok([of |-> request]), Err("OnEvent", request)}

\* line 84: sender.send fails, the receiver is gone
SendError == Err("Send", NULL_STR)
\* line 86: rx.await fails, the oneshot sender was dropped without a value
RecvError == Err("Recv", NULL_STR)

\* lines 82: oneshot::channel()
OneshotChannel == [tx |-> "live", rx |-> "live", sent |-> <<>>]

\* lines 78-84: the c-th call creates its oneshot channel and sends the message
Execute ==
    /\ wrapper
    /\ \E c \in Callers, request \in Requests :
         /\ caller_pc[c] = "idle"
         /\ \A b \in Callers : b < c => caller_pc[b] # "idle"
         /\ request_of' = [request_of EXCEPT ![c] = request]
         /\ IF worker = "failed"
            THEN /\ oneshot' = [oneshot EXCEPT ![c] =
                                   [tx |-> "dropped", rx |-> "dropped", sent |-> <<>>]]
                 /\ caller_pc' = [caller_pc EXCEPT ![c] = "returned"]
                 /\ returned' = [returned EXCEPT ![c] = SendError]
                 /\ UNCHANGED channel
            ELSE /\ oneshot' = [oneshot EXCEPT ![c] = OneshotChannel]
                 /\ channel' = Append(channel, [response |-> c, request |-> request])
                 /\ caller_pc' = [caller_pc EXCEPT ![c] = "waiting"]
                 /\ UNCHANGED returned
    /\ UNCHANGED <<readerv, corsv, worker, wrapper, tasks>>

\* line 86: rx.await resolves
AwaitOf(c) ==
    /\ caller_pc[c] = "waiting"
    /\ \/ /\ oneshot[c].sent # <<>>
          /\ returned' = [returned EXCEPT ![c] = Head(oneshot[c].sent)]
       \/ /\ oneshot[c].sent = <<>>
          /\ oneshot[c].tx \in {"dropped", "used"}
          /\ returned' = [returned EXCEPT ![c] = RecvError]
    /\ caller_pc' = [caller_pc EXCEPT ![c] = "returned"]
    /\ oneshot' = [oneshot EXCEPT ![c].rx = "taken"]
    /\ UNCHANGED <<readerv, corsv, worker, wrapper, channel, tasks, request_of>>

Await == \E c \in Callers : AwaitOf(c)

\* the future of an execute call is dropped while it waits at line 86
Abandon ==
    /\ \E c \in Callers :
         /\ caller_pc[c] = "waiting"
         /\ caller_pc' = [caller_pc EXCEPT ![c] = "abandoned"]
         /\ oneshot' = [oneshot EXCEPT ![c].rx = "dropped"]
    /\ UNCHANGED <<readerv, corsv, worker, wrapper, channel, tasks, request_of,
                   returned>>

\* the last clone of the wrapper is dropped; a waiting call borrows one
DropWrapper ==
    /\ wrapper
    /\ \A c \in Callers : caller_pc[c] # "waiting"
    /\ wrapper' = FALSE
    /\ UNCHANGED <<readerv, corsv, worker, channel, tasks, oneshot, caller_pc,
                   request_of, returned>>

\* lines 52-56: the runtime is built and Worker::new returns Ok
WorkerStart ==
    /\ worker = "starting"
    /\ worker' = "running"
    /\ UNCHANGED <<readerv, corsv, wrapper, channel, tasks, oneshot, caller_pc,
                   request_of, returned>>

QueuedKept(ch, os) == os
\* dropping the receiver drops every queued message and its oneshot sender
QueuedDropped(ch, os) ==
    [c \in Callers |->
        IF \E n \in DOMAIN ch : ch[n].response = c
        THEN [os[c] EXCEPT !.tx = "dropped"]
        ELSE os[c]]

\* lines 52 and 56: an unwrap panics and the receiver is dropped
WorkerFail ==
    /\ worker = "starting"
    /\ worker' = "failed"
    /\ channel' = <<>>
    /\ oneshot' = QueuedDropped(channel, oneshot)
    /\ UNCHANGED <<readerv, corsv, wrapper, tasks, caller_pc, request_of, returned>>

\* lines 58-60: receiver.recv() yields a message, a task is spawned for it
Recv ==
    /\ worker = "running"
    /\ channel # <<>>
    /\ tasks' = tasks \cup {Head(channel)}
    /\ channel' = Tail(channel)
    /\ UNCHANGED <<readerv, corsv, worker, wrapper, oneshot, caller_pc,
                   request_of, returned>>

\* line 58: receiver.recv() yields None, every sender is gone
LoopEnd ==
    /\ worker = "running"
    /\ channel = <<>>
    /\ ~wrapper
    /\ worker' = "ended"
    /\ UNCHANGED <<readerv, corsv, wrapper, channel, tasks, oneshot, caller_pc,
                   request_of, returned>>

ReplyToFirst(msg) == 1
\* line 64: the oneshot sender that came with the request
ReplyTo(msg) == msg.response

\* lines 61-64: on_event returns, the result is sent; a send error is ignored
OnEvent ==
    /\ \E msg \in tasks : \E r \in OnEventResults(msg.request) :
         /\ tasks' = tasks \ {msg}
         /\ oneshot' = [c \in Callers |->
                          [oneshot[c] EXCEPT
                             !.tx = IF c = msg.response THEN "used" ELSE @,
                             !.sent = IF c = ReplyTo(msg) /\ oneshot[c].rx = "live"
                                      THEN Append(@, r) ELSE @]]
    /\ UNCHANGED <<readerv, corsv, worker, wrapper, channel, caller_pc,
                   request_of, returned>>

InitJs ==
    /\ imports = Diamond
    /\ absent = {}
    /\ corrupt = {}
    /\ content = EmptyMap
    /\ files = <<>>
    /\ caller = "direct"
    /\ Fresh
    /\ JsFresh
    /\ CorsFresh

NextJs ==
    \/ Execute
    \/ Await
    \/ Abandon
    \/ DropWrapper
    \/ WorkerStart
    \/ WorkerFail
    \/ Recv
    \/ LoopEnd
    \/ OnEvent

SpecJs == InitJs /\ [][NextJs]_vars

\* the worker thread and its tasks run, on_event terminates, waiting calls are
\* polled
SpecJsLive ==
    /\ InitJs
    /\ [][NextJs]_vars
    /\ WF_vars(WorkerStart \/ WorkerFail)
    /\ WF_vars(Recv)
    /\ WF_vars(OnEvent)
    /\ \A c \in Callers : WF_vars(AwaitOf(c))


\* C22: with any number of execute calls in flight and tasks finishing in any
\* order, a call is sent at most one result, only after it was made, and what
\* it is sent and what it returns from the worker is a result on_event produced
\* for its own request
C22_OwnResultOnce ==
    \A c \in Callers :
        /\ Len(oneshot[c].sent) <= 1
        /\ oneshot[c].tx = "none" => oneshot[c].sent = <<>>
        /\ \A n \in DOMAIN oneshot[c].sent :
              oneshot[c].sent[n] \in OnEventResults(request_of[c])
        /\ (caller_pc[c] = "returned" /\ returned[c] \notin {SendError, RecvError}) =>
              /\ returned[c] \in OnEventResults(request_of[c])
              /\ oneshot[c].tx = "used"

\* three calls in flight: the second one has returned its own result while the
\* task of the first one, received earlier, is still running
C22_Witness ==
    /\ request_of[1] = "/a"
    /\ request_of[2] = "/b"
    /\ caller_pc[1] = "waiting"
    /\ [response |-> 1, request |-> "/a"] \in tasks
    /\ caller_pc[2] = "returned"
    /\ returned[2] = Ok([of |-> "/b"])
    /\ caller_pc[3] = "waiting"


\* the message of call c is queued or its task is running
InFlight(c) ==
    \/ \E n \in DOMAIN channel : channel[n].response = c
    \/ \E msg \in tasks : msg.response = c

\* C23: every execute call eventually returns unless its caller abandons it:
\* with on_event's result when the worker handled the request, with an error
\* when the worker could not be created; a waiting call is never left with a
\* live oneshot sender that no message or task holds, whatever other callers
\* abandoned
C23_EventuallyReturns ==
    /\ [](\A c \in Callers :
            /\ (caller_pc[c] = "waiting" /\ oneshot[c].tx = "live") =>
                  (InFlight(c) /\ worker # "failed")
            /\ (caller_pc[c] = "returned" /\ worker # "failed") =>
                  returned[c] \in OnEventResults(request_of[c])
            /\ (caller_pc[c] = "returned" /\ worker = "failed") =>
                  returned[c] \in {SendError, RecvError})
    /\ \A c \in Callers :
          (caller_pc[c] = "waiting") ~> (caller_pc[c] \in {"returned", "abandoned"})

\* the first caller abandoned its request, whose result the worker then could
\* not send; the later request was answered all the same
C23_Witness ==
    /\ worker = "running"
    /\ caller_pc[1] = "abandoned"
    /\ oneshot[1] = [tx |-> "used", rx |-> "dropped", sent |-> <<>>]
    /\ caller_pc[2] = "returned"
    /\ returned[2] = Ok([of |-> request_of[2]])

\* the worker could not be created: the queued call and the later call both
\* returned an error
C23_WitnessFailed ==
    /\ worker = "failed"
    /\ caller_pc[1] = "returned"
    /\ returned[1] = RecvError
    /\ caller_pc[2] = "returned"
    /\ returned[2] = SendError


----------------------------------------------------------------------------
(* handle_request_with_cors *)

Methods == {"OPTIONS", "GET", "POST"}

\* a CorsParams as ensure_usable_cors_rules reads it: the flag and, for each
\* list, whether it is the wildcard
CorsRules ==
    [allow_credentials : BOOLEAN,
     allow_headers  : {"*", "list"},
     allow_methods  : {"*", "list"},
     allow_origin   : {"*", "list"},
     expose_headers : {"*", "list"}]

IsWildcard(v) == v = "*"

UsableNoExpose(layer) ==
    layer.allow_credentials =>
        /\ ~IsWildcard(layer.allow_headers)
        /\ ~IsWildcard(layer.allow_methods)
        /\ ~IsWildcard(layer.allow_origin)
\* lines 139-165: every assertion of ensure_usable_cors_rules passes
Usable(layer) ==
    layer.allow_credentials =>
        /\ ~IsWildcard(layer.allow_headers)
        /\ ~IsWildcard(layer.allow_methods)
        /\ ~IsWildcard(layer.allow_origin)
        /\ ~IsWildcard(layer.expose_headers)

\* lines 181-184: the headers of preflight and regular responses
CommonNames ==
    {"access-control-allow-origin", "access-control-allow-credentials",
     "access-control-allow-private-network", "vary"}
PreflightNamesAndExpose ==
    {"access-control-allow-methods", "access-control-allow-headers",
     "access-control-max-age", "access-control-expose-headers"}
\* lines 189-191: the headers of preflight responses only
PreflightNames ==
    {"access-control-allow-methods", "access-control-allow-headers",
     "access-control-max-age"}
\* line 199: the header of regular responses only
ExposeNames == {"access-control-expose-headers"}

\* the HeaderMaps the *_to_header functions of a set of names can add up to:
\* each function yields its header or nothing
HeadersOf(names) == {[n \in present |-> <<"cors">>] : present \in SUBSET names}

\* HeaderMap::extend over names the map does not hold yet
Extend(map, more) ==
    [n \in DOMAIN map \cup DOMAIN more |-> IF n \in DOMAIN more THEN more[n] ELSE map[n]]

\* what handle_request may return (line 202)
HandlerResults ==
    {Ok([body |-> "data", headers |-> EmptyMap]),
     Ok([body |-> "data",
         headers |-> [n \in {"vary", "access-control-allow-origin", "content-type"} |->
                         <<"handler">>]]),
     Err("Handler", NULL_STR)}

\* lines 172: an assertion of ensure_usable_cors_rules fails
CorsPanic ==
    /\ cors_pc = "idle"
    /\ \E layer \in CorsRules, method \in Methods :
         /\ ~Usable(layer)
         /\ cors' = layer
         /\ req' = [method |-> method]
    /\ cors_pc' = "panicked"
    /\ UNCHANGED <<readerv, jsv, headers, response, handled>>

\* lines 172-196: a preflight request
CorsPreflight ==
    /\ cors_pc = "idle"
    /\ \E layer \in CorsRules :
         /\ Usable(layer)
         /\ cors' = layer
    /\ req' = [method |-> "OPTIONS"]
    /\ \E common \in HeadersOf(CommonNames), more \in HeadersOf(PreflightNames) :
         response' = Ok([body |-> "", headers |-> Extend(common, more)])
    /\ cors_pc' = "done"
    /\ UNCHANGED <<readerv, jsv, headers, handled>>

\* lines 172-184 and 199-202: any other request, up to the call of handle_request
CorsForward ==
    /\ cors_pc = "idle"
    /\ \E layer \in CorsRules, method \in Methods \ {"OPTIONS"} :
         /\ Usable(layer)
         /\ cors' = layer
         /\ req' = [method |-> method]
    /\ \E common \in HeadersOf(CommonNames), more \in HeadersOf(ExposeNames) :
         headers' = Extend(common, more)
    /\ handled' = handled + 1
    /\ cors_pc' = "handler"
    /\ UNCHANGED <<readerv, jsv, response>>

\* lines 208-212: vary is appended, every other name is overwritten
MergeHeaders(response_headers, cors_headers) ==
    [n \in DOMAIN response_headers \cup DOMAIN cors_headers |->
        IF n \notin DOMAIN cors_headers THEN response_headers[n]
        ELSE IF n = "vary" /\ n \in DOMAIN response_headers
             THEN response_headers[n] \o cors_headers[n]
             ELSE cors_headers[n]]

\* lines 202-214: handle_request returns
CorsReturn ==
    /\ cors_pc = "handler"
    /\ \E r \in HandlerResults :
         IF r.ok
         THEN /\ response' = Ok([r.value EXCEPT !.headers = MergeHeaders(@, headers)])
              /\ headers' = EmptyMap
         ELSE /\ response' = r
              /\ UNCHANGED headers
    /\ cors_pc' = "done"
    /\ UNCHANGED <<readerv, jsv, cors, req, handled>>

InitCors ==
    /\ imports = Diamond
    /\ absent = {}
    /\ corrupt = {}
    /\ content = EmptyMap
    /\ files = <<>>
    /\ caller = "direct"
    /\ Fresh
    /\ JsFresh
    /\ CorsFresh

NextCors == CorsPanic \/ CorsPreflight \/ CorsForward \/ CorsReturn

SpecCors == InitCors /\ [][NextCors]_vars


\* C24: a preflight request is answered at once with an empty body and without
\* a call of handle_request, under no other headers than allow-origin,
\* allow-credentials, allow-private-network, vary, allow-methods, allow-headers
\* and max-age; any other request is passed to handle_request exactly once and
\* is given expose-headers, never one of the three preflight-only headers
C24_PreflightShortCircuit ==
    /\ (cors_pc \notin {"idle", "panicked"} /\ req.method = "OPTIONS") =>
          /\ cors_pc = "done"
          /\ handled = 0
          /\ response.ok
          /\ response.value.body = ""
          /\ DOMAIN response.value.headers \subseteq
                {"access-control-allow-origin", "access-control-allow-credentials",
                 "access-control-allow-private-network", "vary",
                 "access-control-allow-methods", "access-control-allow-headers",
                 "access-control-max-age"}
    /\ (cors_pc \notin {"idle", "panicked"} /\ req.method # "OPTIONS") =>
          /\ handled = 1
          /\ DOMAIN headers \subseteq
                {"access-control-allow-origin", "access-control-allow-credentials",
                 "access-control-allow-private-network", "vary",
                 "access-control-expose-headers"}
          /\ (cors_pc = "done" /\ response.ok) =>
                DOMAIN response.value.headers \cap
                   {"access-control-allow-methods", "access-control-allow-headers",
                    "access-control-max-age"} = {}

\* a preflight response that carries all seven headers
C24_Witness ==
    /\ cors_pc = "done"
    /\ req.method = "OPTIONS"
    /\ handled = 0
    /\ Cardinality(DOMAIN response.value.headers) = 7

\* a regular response: expose-headers applied, the handler's vary kept, its
\* allow-origin overwritten
C24_WitnessForwarded ==
    /\ cors_pc = "done"
    /\ req.method = "POST"
    /\ handled = 1
    /\ response.ok
    /\ response.value.body = "data"
    /\ {"access-control-expose-headers", "vary", "access-control-allow-origin"}
          \subseteq DOMAIN response.value.headers
    /\ response.value.headers["vary"] = <<"handler", "cors">>
    /\ response.value.headers["access-control-allow-origin"] = <<"cors">>

\* C25: with allow_credentials and a wildcard among allow_headers,
\* allow_methods, allow_origin and expose_headers the call panics before any
\* header is computed or the handler invoked; without allow_credentials no
\* combination of wildcards is rejected
C25_UnusableRejected ==
    cors_pc # "idle" =>
        /\ (/\ cors.allow_credentials
            /\ "*" \in {cors.allow_headers, cors.allow_methods, cors.allow_origin,
                        cors.expose_headers}) =>
              /\ cors_pc = "panicked"
              /\ headers = EmptyMap
              /\ response = NotYet
              /\ handled = 0
        /\ ~cors.allow_credentials => cors_pc # "panicked"

\* credentials with a wildcard in expose_headers alone are rejected
C25_Witness ==
    /\ cors_pc = "panicked"
    /\ cors = [allow_credentials |-> TRUE, allow_headers |-> "list",
               allow_methods |-> "list", allow_origin |-> "list",
               expose_headers |-> "*"]
    /\ handled = 0

\* four wildcards without credentials are served
C25_WitnessAccepted ==
    /\ cors_pc = "done"
    /\ cors = [allow_credentials |-> FALSE, allow_headers |-> "*",
               allow_methods |-> "*", allow_origin |-> "*", expose_headers |-> "*"]
    /\ response.ok

====
